---- MODULE Spec2Model ----
(***************************************************************************)
(* A model of flbtool.py: the FLB3 container codec (FLBHeader, PCIDetails, *)
(* PCIDeviceList, PCIDevice, FirmwareData, FLBChunk), the extract loop of  *)
(* extract_firmware and the rebuild loops of write_firmware.               *)
(*                                                                         *)
(* Bytes are integers 0..255 and byte strings are sequences of bytes.      *)
(* The script is Python 2 code (str is a byte string; str.encode('ascii')  *)
(* raises on any byte >= 128; struct.pack 'Ns' pads with zero bytes and    *)
(* truncates silently; struct.unpack raises struct.error unless the buffer *)
(* has exactly the size of the format).  An uncaught exception ends the    *)
(* operation: pc = "error".                                                *)
(***************************************************************************)
EXTENDS Integers, Sequences, FiniteSets, TLC

VARIABLES
    pc,          \* position of the running operation
    inputdata,   \* extract_firmware: the bytes read from args.input
    pos,         \* extract_firmware: the cursor of the parse loop
    consumed,    \* extract_firmware: what the last chunk.parse call returned
    all_chunks,  \* the list of FLBChunk objects of either operation
    idx,         \* index of the next element of the running for-loop
    output,      \* the bytes written to the output file so far
    disk,        \* write_firmware: chunk number -> the two files of that chunk
    file_list,   \* write_firmware: the sorted list of *.bin file names
    written,     \* write_firmware: chunk numbers logged by 'Writing chunk %i'
    region,      \* PCIDeviceList.parse: the argument firmware
    devresult    \* PCIDeviceList.parse: its outcome

vars == <<pc, inputdata, pos, consumed, all_chunks, idx, output, disk,
          file_list, written, region, devresult>>

----------------------------------------------------------------------------
(* Program constants *)

FLBHeader_HEADERSIZE == 98
PCIDetails_HEADERSIZE == 41
DEVICESIZE == 12

(* Bounds of the model *)

MaxDevs == 2      \* device entries of a generated chunk
MaxData == 2      \* payload bytes of a generated chunk
MaxChunks == 2    \* chunks of a generated container
MaxEntries == 3   \* whole entries of a generated device-list region
MaxFiles == 2     \* chunk files of a generated input directory

----------------------------------------------------------------------------
(* Python and struct primitives *)

Min(a, b) == IF a < b THEN a ELSE b
Max(a, b) == IF a > b THEN a ELSE b

Zeros(n) == [i \in 1..n |-> 0]

\* s[a:b] of Python: negative indices count from the end, both are clamped.
PySlice(s, a, b) ==
    LET n  == Len(s)
        lo == IF a < 0 THEN Max(a + n, 0) ELSE Min(a, n)
        hi == IF b < 0 THEN Max(b + n, 0) ELSE Min(b, n)
    IN  IF hi <= lo THEN <<>> ELSE SubSeq(s, lo + 1, hi)

\* s[a:] of Python
PySliceFrom(s, a) == PySlice(s, a, Len(s))

\* struct.unpack of '<H' and '<I' at 0-based offset off of s
U16(s, off) == s[off + 1] + 256 * s[off + 2]
U32(s, off) == s[off + 1] + 256 * s[off + 2] + 65536 * s[off + 3]
                 + 16777216 * s[off + 4]

\* struct.pack of '<B', '<H' and '<I'
LE8(v)  == <<v>>
LE16(v) == <<v % 256, (v \div 256) % 256>>
LE32(v) == <<v % 256, (v \div 256) % 256, (v \div 65536) % 256,
             (v \div 16777216) % 256>>

\* struct.pack raises struct.error for an integer outside the field's range.
FitsU8(v)  == v >= 0 /\ v <= 255
FitsU16(v) == v >= 0 /\ v <= 65535
FitsU32(v) == v >= 0   \* every model integer is below 2^32

\* struct.pack of 'Ns': zero-padded to n bytes, silently cut to n bytes.
PackS(s, n) == IF Len(s) >= n THEN SubSeq(s, 1, n) ELSE s \o Zeros(n - Len(s))

\* text.encode('ascii') succeeds iff every character is below 128.
AsciiEncodable(s) == \A i \in 1..Len(s) : s[i] < 128

NotNul(b) == b # 0
\* description.replace("\x00", '')
StripNul(s) == SelectSeq(s, NotNul)

----------------------------------------------------------------------------
(* FLBHeader *)

\* FLBHeader.parse: unpack '<4sIBIH80s3B' from firmware[0:98].
FLBHeaderParse(firmware) ==
    LET buf == PySlice(firmware, 0, FLBHeader_HEADERSIZE)
    IN  IF Len(buf) # FLBHeader_HEADERSIZE
        THEN [ok |-> FALSE]
        ELSE [ok |-> TRUE,
              header |-> [magic         |-> SubSeq(buf, 1, 4),
                          header_length |-> U32(buf, 4),
                          unknown1      |-> buf[9],
                          data_length   |-> U32(buf, 9),
                          delimiter     |-> U16(buf, 13),
                          description   |-> StripNul(SubSeq(buf, 16, 95)),
                          version1      |-> buf[96],
                          version2      |-> buf[97],
                          version3      |-> buf[98]],
              consumed |-> FLBHeader_HEADERSIZE]

\* FLBHeader.writeToFLB: the bytes written, or the exception raised while the
\* arguments of struct.pack are evaluated (nothing is written then).
FLBHeaderWriteToFLB(h) ==
    IF /\ AsciiEncodable(h.magic)
       /\ AsciiEncodable(h.description)
       /\ FitsU32(h.header_length) /\ FitsU8(h.unknown1)
       /\ FitsU32(h.data_length) /\ FitsU16(h.delimiter)
       /\ FitsU8(h.version1) /\ FitsU8(h.version2) /\ FitsU8(h.version3)
    THEN [ok |-> TRUE,
          bytes |-> PackS(h.magic, 4) \o LE32(h.header_length)
                    \o LE8(h.unknown1) \o LE32(h.data_length)
                    \o LE16(h.delimiter) \o PackS(h.description, 80)
                    \o LE8(h.version1) \o LE8(h.version2) \o LE8(h.version3)]
    ELSE [ok |-> FALSE, bytes |-> <<>>]

----------------------------------------------------------------------------
(* PCIDetails *)

\* PCIDetails.parse: unpack '<I37s' from firmware[0:41].
PCIDetailsParse(firmware) ==
    LET buf == PySlice(firmware, 0, PCIDetails_HEADERSIZE)
    IN  IF Len(buf) # PCIDetails_HEADERSIZE
        THEN [ok |-> FALSE]
        ELSE [ok |-> TRUE,
              pcidetails |-> [flb_type |-> U32(buf, 0),
                              unknown  |-> SubSeq(buf, 5, 41)],
              consumed |-> PCIDetails_HEADERSIZE]

\* PCIDetails.writeToFLB
PCIDetailsWriteToFLB(d) ==
    IF AsciiEncodable(d.unknown) /\ FitsU32(d.flb_type)
    THEN [ok |-> TRUE, bytes |-> LE32(d.flb_type) \o PackS(d.unknown, 37)]
    ELSE [ok |-> FALSE, bytes |-> <<>>]

----------------------------------------------------------------------------
(* PCIDevice and PCIDeviceList *)

\* PCIDevice(*struct.unpack('<HHHHHH', buf))
PCIDevice(buf) ==
    [vendor    |-> U16(buf, 0), device    |-> U16(buf, 2),
     subvendor |-> U16(buf, 4), subdevice |-> U16(buf, 6),
     unk1      |-> U16(buf, 8), unk2      |-> U16(buf, 10)]

\* PCIDevice.isValid
isValid(d) ==
    \/ d.vendor > 0 \/ d.device > 0 \/ d.subvendor > 0
    \/ d.subdevice > 0 \/ d.unk1 > 0 \/ d.unk2 > 0

\* PCIDevice.writeToFLB
PCIDeviceWriteToFLB(d) ==
    IF /\ FitsU16(d.vendor) /\ FitsU16(d.device) /\ FitsU16(d.subvendor)
       /\ FitsU16(d.subdevice) /\ FitsU16(d.unk1) /\ FitsU16(d.unk2)
    THEN [ok |-> TRUE,
          bytes |-> LE16(d.vendor) \o LE16(d.device) \o LE16(d.subvendor)
                    \o LE16(d.subdevice) \o LE16(d.unk1) \o LE16(d.unk2)]
    ELSE [ok |-> FALSE, bytes |-> <<>>]

\* The while loop of PCIDeviceList.parse, from devicepos on.
RECURSIVE DeviceLoop(_, _, _)
DeviceLoop(firmware, devicepos, devices) ==
    IF devicepos < Len(firmware)
    THEN LET buf == PySlice(firmware, devicepos, devicepos + DEVICESIZE)
         IN  IF Len(buf) # DEVICESIZE
             THEN [ok |-> FALSE]
             ELSE DeviceLoop(firmware, devicepos + DEVICESIZE,
                             Append(devices, PCIDevice(buf)))
    ELSE [ok |-> TRUE, devices |-> devices, consumed |-> devicepos]

\* A loop that ignores a trailing partial entry instead of unpacking it.
RECURSIVE DeviceLoopLenient(_, _, _)
DeviceLoopLenient(firmware, devicepos, devices) ==
    IF devicepos + DEVICESIZE <= Len(firmware)
    THEN DeviceLoopLenient(firmware, devicepos + DEVICESIZE,
             Append(devices,
                    PCIDevice(PySlice(firmware, devicepos,
                                      devicepos + DEVICESIZE))))
    ELSE [ok |-> TRUE, devices |-> devices, consumed |-> devicepos]

\* A loop that stops at the first all-zero entry and drops it.
RECURSIVE DeviceLoopSentinel(_, _, _)
DeviceLoopSentinel(firmware, devicepos, devices) ==
    IF devicepos < Len(firmware)
    THEN LET buf == PySlice(firmware, devicepos, devicepos + DEVICESIZE)
         IN  IF Len(buf) # DEVICESIZE
             THEN [ok |-> FALSE]
             ELSE IF ~isValid(PCIDevice(buf))
                  THEN [ok |-> TRUE, devices |-> devices,
                        consumed |-> devicepos + DEVICESIZE]
                  ELSE DeviceLoopSentinel(firmware, devicepos + DEVICESIZE,
                                          Append(devices, PCIDevice(buf)))
    ELSE [ok |-> TRUE, devices |-> devices, consumed |-> devicepos]

PCIDeviceListParse_lenient(firmware) == DeviceLoopLenient(firmware, 0, <<>>)

PCIDeviceListParse_sentinel(firmware) == DeviceLoopSentinel(firmware, 0, <<>>)

\* PCIDeviceList.parse
PCIDeviceListParse(firmware) == DeviceLoop(firmware, 0, <<>>)

\* PCIDeviceList.writeToFLB writes the devices one by one: the bytes written
\* before the first device that cannot be packed, and whether all were.
RECURSIVE PCIDeviceListWriteToFLB(_)
PCIDeviceListWriteToFLB(devices) ==
    IF devices = <<>>
    THEN [ok |-> TRUE, bytes |-> <<>>]
    ELSE LET first == PCIDeviceWriteToFLB(Head(devices))
             rest  == PCIDeviceListWriteToFLB(Tail(devices))
         IN  IF first.ok
             THEN [ok |-> rest.ok, bytes |-> first.bytes \o rest.bytes]
             ELSE [ok |-> FALSE, bytes |-> <<>>]

----------------------------------------------------------------------------
(* FLBChunk *)

\* FLBChunk.parse with the device list's declared size added to pos in place
\* of the count PCIDeviceList.parse returns.
FLBChunkParse_declared(chunknum, data) ==
    LET h == FLBHeaderParse(PySlice(data, 0, FLBHeader_HEADERSIZE))
    IN  IF ~h.ok THEN [ok |-> FALSE] ELSE
    LET pos1 == h.consumed
        d == PCIDetailsParse(PySlice(data, pos1, pos1 + PCIDetails_HEADERSIZE))
    IN  IF ~d.ok THEN [ok |-> FALSE] ELSE
    LET pos2 == pos1 + d.consumed
        pci_devicelist_size == h.header.header_length - FLBHeader_HEADERSIZE
                                 - PCIDetails_HEADERSIZE
        l == PCIDeviceListParse(PySlice(data, pos2, pos2 + pci_devicelist_size))
    IN  IF ~l.ok THEN [ok |-> FALSE] ELSE
    LET pos3 == pos2 + pci_devicelist_size
        firmware == PySlice(data, pos3, pos3 + h.header.data_length)
    IN  [ok |-> TRUE,
         chunk |-> [chunknum   |-> chunknum,
                    header     |-> h.header,
                    pcidetails |-> d.pcidetails,
                    pcidevices |-> l.devices,
                    firmware   |-> firmware],
         consumed |-> pos3 + h.header.data_length]

\* FLBChunk(chunknum).parse(inputdata): the chunk and the bytes consumed, or
\* the struct.error of a sub-structure.
FLBChunkParse(chunknum, data) ==
    LET h == FLBHeaderParse(PySlice(data, 0, FLBHeader_HEADERSIZE))
    IN  IF ~h.ok THEN [ok |-> FALSE] ELSE
    LET pos1 == h.consumed
        d == PCIDetailsParse(PySlice(data, pos1, pos1 + PCIDetails_HEADERSIZE))
    IN  IF ~d.ok THEN [ok |-> FALSE] ELSE
    LET pos2 == pos1 + d.consumed
        pci_devicelist_size == h.header.header_length - FLBHeader_HEADERSIZE
                                 - PCIDetails_HEADERSIZE
        l == PCIDeviceListParse(PySlice(data, pos2, pos2 + pci_devicelist_size))
    IN  IF ~l.ok THEN [ok |-> FALSE] ELSE
    LET pos3 == pos2 + l.consumed
        firmware == PySlice(data, pos3, pos3 + h.header.data_length)
    IN  [ok |-> TRUE,
         chunk |-> [chunknum   |-> chunknum,
                    header     |-> h.header,
                    pcidetails |-> d.pcidetails,
                    pcidevices |-> l.devices,
                    firmware   |-> firmware],
         consumed |-> pos3 + h.header.data_length]

\* recalculateHeaders that refreshes data_length only.
recalculateHeaders_stale(chunk) ==
    [chunk EXCEPT !.header.data_length = Len(chunk.firmware)]

\* FLBChunk.recalculateHeaders
recalculateHeaders(chunk) ==
    [chunk EXCEPT
       !.header.data_length = Len(chunk.firmware),
       !.header.header_length = FLBHeader_HEADERSIZE + PCIDetails_HEADERSIZE
                                  + Len(chunk.pcidevices) * DEVICESIZE]

\* FLBChunk.writeToFLB: the four writes in order; an exception in one of them
\* leaves the bytes of the earlier ones in the file.
FLBChunkWriteToFLB(chunk) ==
    LET h == FLBHeaderWriteToFLB(chunk.header)
        d == PCIDetailsWriteToFLB(chunk.pcidetails)
        l == PCIDeviceListWriteToFLB(chunk.pcidevices)
    IN  IF ~h.ok THEN [ok |-> FALSE, bytes |-> <<>>]
        ELSE IF ~d.ok THEN [ok |-> FALSE, bytes |-> h.bytes]
        ELSE IF ~l.ok THEN [ok |-> FALSE, bytes |-> h.bytes \o d.bytes \o l.bytes]
        ELSE [ok |-> TRUE,
              bytes |-> h.bytes \o d.bytes \o l.bytes \o chunk.firmware]

----------------------------------------------------------------------------
(* Input containers, laid out as the HEADERFORMAT / DEVICEFORMAT strings say *)

Variants == {"plain", "fulldesc", "innernul", "highdesc", "highunk"}

\* The 80-byte description field on the wire: "AB" zero-padded; 80 letters;
\* a zero byte between two letters; a byte above 127.
DescField(cv) ==
    CASE cv = "fulldesc" -> [i \in 1..80 |-> 65]
      [] cv = "innernul" -> <<65, 0, 66>> \o Zeros(77)
      [] cv = "highdesc" -> <<233, 65>> \o Zeros(78)
      [] OTHER           -> <<65, 66>> \o Zeros(78)

\* The 37 opaque bytes of PCIDetails: all zero, or with a byte above 127.
UnknownField(cv) ==
    IF cv = "highunk" THEN <<128>> \o Zeros(36) ELSE Zeros(37)

\* n device entries: 8086:1563 entries closed by the all-zero entry.
DeviceBytes(n) ==
    [i \in 1..(n * DEVICESIZE) |->
        IF i > (n - 1) * DEVICESIZE THEN 0
        ELSE <<134, 128, 99, 21, 0, 0, 0, 0, 0, 0, 0, 0>>[((i - 1) % DEVICESIZE) + 1]]

PayloadBytes(p) == [i \in 1..p |-> 16 + i]

\* One chunk on the wire that declares header length hl and data length dl
\* and holds n device entries and p payload bytes.
RawChunk(hl, dl, cv, n, p) ==
    <<70, 76, 66, 51>> \o LE32(hl) \o <<1>> \o LE32(dl) \o <<128, 134>>
    \o DescField(cv) \o <<1, 2, 3>>
    \o LE32(768) \o UnknownField(cv)
    \o DeviceBytes(n) \o PayloadBytes(p)

FixedSize == FLBHeader_HEADERSIZE + PCIDetails_HEADERSIZE

\* A chunk whose declared lengths are the true ones.
GoodChunk(cv, n, p) == RawChunk(FixedSize + DEVICESIZE * n, p, cv, n, p)

RECURSIVE Concat(_)
Concat(ss) == IF ss = <<>> THEN <<>> ELSE Head(ss) \o Concat(Tail(ss))

\* The chunks in front of the last one: well-formed, of two shapes.
Prefixes ==
    { Concat(f) : f \in UNION { [1..k -> {GoodChunk("plain", 0, 0),
                                          GoodChunk("plain", 1, 1)}]
                                : k \in 0..(MaxChunks - 1) } }

GoodLast ==
    { GoodChunk(cv, n, p) : cv \in Variants, n \in 0..MaxDevs, p \in 0..MaxData }

DeclaredHeaderLengths ==
    {100, FixedSize - 1, FixedSize + 1, FixedSize + 6}
      \cup { FixedSize + DEVICESIZE * n : n \in 0..MaxDevs }

Truncations == {0, 1, 13, 50}

\* s without its last t bytes
DropLast(s, t) == SubSeq(s, 1, Max(Len(s) - t, 0))

\* A last chunk whose declared lengths need not be the true ones, and which
\* may be cut short.
OddLast ==
    { DropLast(RawChunk(hl, dl, "plain", n, p), t) :
        hl \in DeclaredHeaderLengths, dl \in 0..MaxData,
        n \in 0..MaxDevs, p \in 0..MaxData, t \in Truncations }

InputBuffers ==
    {<<>>} \cup { pre \o last : pre \in Prefixes, last \in GoodLast \cup OddLast }

\* buf is a back-to-back run of chunks whose headerLength is 139 + 12 * k and
\* whose dataLength is the length of the payload that follows.
RECURSIVE WellFormed(_)
WellFormed(buf) ==
    \/ buf = <<>>
    \/ /\ Len(buf) >= FixedSize
       /\ LET hl == U32(buf, 4)
              dl == U32(buf, 9)
          IN  /\ hl >= FixedSize
              /\ (hl - FixedSize) % DEVICESIZE = 0
              /\ hl + dl <= Len(buf)
              /\ WellFormed(SubSeq(buf, hl + dl + 1, Len(buf)))

----------------------------------------------------------------------------
(* extract_firmware: the parse loop, and the re-serialisation of its chunks *)

NoDisk == <<>>

InitExtract ==
    /\ pc = "parse"
    /\ inputdata \in InputBuffers
    /\ pos = 0
    /\ consumed = 0
    /\ all_chunks = <<>>
    /\ idx = 1
    /\ output = <<>>
    /\ disk = NoDisk
    /\ file_list = <<>>
    /\ written = <<>>
    /\ region = <<>>
    /\ devresult = [ok |-> FALSE]

\* One iteration of `while pos < len(inputdata)`.
ParseChunk ==
    /\ pc = "parse"
    /\ pos < Len(inputdata)
    /\ LET r == FLBChunkParse(Len(all_chunks), PySliceFrom(inputdata, pos))
       IN  IF r.ok
           THEN /\ pos' = pos + r.consumed
                /\ consumed' = r.consumed
                /\ all_chunks' = Append(all_chunks, r.chunk)
                /\ pc' = pc
           ELSE /\ pc' = "error"
                /\ UNCHANGED <<pos, consumed, all_chunks>>
    /\ UNCHANGED <<inputdata, idx, output, disk, file_list, written,
                   region, devresult>>

\* The loop condition fails: parsing is done.
ParseDone ==
    /\ pc = "parse"
    /\ pos >= Len(inputdata)
    /\ pc' = "parsed"
    /\ UNCHANGED <<inputdata, pos, consumed, all_chunks, idx, output, disk,
                   file_list, written, region, devresult>>

\* recalculateHeaders and then writeToFLB on the next parsed chunk.
Reserialize ==
    /\ pc = "parsed"
    /\ idx <= Len(all_chunks)
    /\ LET chunk == recalculateHeaders(all_chunks[idx])
           w     == FLBChunkWriteToFLB(chunk)
       IN  /\ all_chunks' = [all_chunks EXCEPT ![idx] = chunk]
           /\ output' = output \o w.bytes
           /\ pc' = IF w.ok THEN pc ELSE "error"
    /\ idx' = idx + 1
    /\ UNCHANGED <<inputdata, pos, consumed, disk, file_list, written,
                   region, devresult>>

ReserializeDone ==
    /\ pc = "parsed"
    /\ idx > Len(all_chunks)
    /\ pc' = "done"
    /\ UNCHANGED <<inputdata, pos, consumed, all_chunks, idx, output, disk,
                   file_list, written, region, devresult>>

NextExtract == ParseChunk \/ ParseDone \/ Reserialize \/ ReserializeDone

SpecExtract == InitExtract /\ [][NextExtract]_vars

----------------------------------------------------------------------------
(* PCIDeviceList.parse on its own *)

ZeroEntry == Zeros(DEVICESIZE)
SomeEntry == <<134, 128, 99, 21, 217, 21, 3, 9, 0, 0, 0, 65>>

\* Whole entries, each all-zero or not, followed by r < 12 further bytes.
Regions ==
    { Concat([i \in 1..k |-> IF f[i] = 0 THEN ZeroEntry ELSE SomeEntry])
        \o [i \in 1..r |-> 7] :
        k \in 0..MaxEntries, f \in [1..MaxEntries -> {0, 1}],
        r \in 0..(DEVICESIZE - 1) }

InitDevList ==
    /\ pc = "devlist"
    /\ region \in Regions
    /\ devresult = [ok |-> FALSE]
    /\ inputdata = <<>>
    /\ pos = 0
    /\ consumed = 0
    /\ all_chunks = <<>>
    /\ idx = 1
    /\ output = <<>>
    /\ disk = NoDisk
    /\ file_list = <<>>
    /\ written = <<>>

DevListParse ==
    /\ pc = "devlist"
    /\ devresult' = PCIDeviceListParse(region)
    /\ pc' = "devlist_done"
    /\ UNCHANGED <<inputdata, pos, consumed, all_chunks, idx, output, disk,
                   file_list, written, region>>

NextDevList == DevListParse

SpecDevList == InitDevList /\ [][NextDevList]_vars

----------------------------------------------------------------------------
(* File names of the chunk files *)

ChunkPrefix == <<99, 104, 117, 110, 107, 95>>   \* "chunk_"
BinSuffix   == <<46, 98, 105, 110>>             \* ".bin"

\* The decimal digits of n >= 0, as characters
RECURSIVE Digits(_)
Digits(n) ==
    IF n < 10 THEN <<48 + n>> ELSE Digits(n \div 10) \o <<48 + (n % 10)>>

\* '%03i' % n: zero-padded to at least three characters
Format03(n) ==
    LET d == Digits(n)
    IN  IF Len(d) >= 3 THEN d ELSE [i \in 1..(3 - Len(d)) |-> 48] \o d

\* The payload file name extractToDisk gives chunk n: 'chunk_%03i.bin'
BinName(n) == ChunkPrefix \o Format03(n) \o BinSuffix

\* int() of a string of decimal digits
RECURSIVE ParseInt(_)
ParseInt(d) ==
    IF Len(d) = 0 THEN 0
    ELSE 10 * ParseInt(SubSeq(d, 1, Len(d) - 1)) + (d[Len(d)] - 48)

\* int(os.path.basename(file).replace('.bin', '').replace('chunk_', ''))
ChunkNumOf(file) ==
    ParseInt(SubSeq(file, Len(ChunkPrefix) + 1, Len(file) - Len(BinSuffix)))

\* a < b for Python strings: at the first difference, or a a proper prefix
StrLess(a, b) ==
    \/ \E i \in 1..Min(Len(a), Len(b)) :
         /\ a[i] < b[i]
         /\ \A j \in 1..(i - 1) : a[j] = b[j]
    \/ /\ Len(a) < Len(b)
       /\ \A j \in 1..Len(a) : a[j] = b[j]

\* list.sort() of a set of distinct strings
RECURSIVE SortNames(_)
SortNames(S) ==
    IF S = {} THEN <<>>
    ELSE LET m == CHOOSE x \in S : \A y \in S \ {x} : StrLess(x, y)
         IN  <<m>> \o SortNames(S \ {m})

----------------------------------------------------------------------------
(* Input directories of write_firmware *)

\* The metadata json.load and object_hook give back for a chunk: strings are
\* sequences of code points, devices are PCIDevice objects.
Metadata(hl, dl, description, n) ==
    [header     |-> [magic         |-> <<70, 76, 66, 51>>,
                     header_length |-> hl,
                     unknown1      |-> 1,
                     data_length   |-> dl,
                     delimiter     |-> 34432,
                     description   |-> description,
                     version1      |-> 1,
                     version2      |-> 2,
                     version3      |-> 3],
     pcidetails |-> [flb_type |-> 768, unknown |-> Zeros(37)],
     pcidevices |-> [i \in 1..n |->
                       IF i = n THEN PCIDevice(ZeroEntry)
                       ELSE PCIDevice(SomeEntry)]]

\* The two files of a chunk: json is "ok", "nojson" (no .json file beside the
\* .bin file) or "badjson" (a .json file json.load or the key lookups reject).
ChunkFiles(json, meta, bin) == [json |-> json, meta |-> meta, bin |-> bin]

\* Chunks whose stored lengths are stale in either direction.
EditedFiles ==
    { ChunkFiles("ok", Metadata(st[1], st[2], <<65, 66>>, n), PayloadBytes(p)) :
        st \in {<<0, 0>>, <<1000, 7>>}, n \in 0..MaxDevs, p \in {0, MaxData} }

PlainFiles == ChunkFiles("ok", Metadata(151, 1, <<65, 66>>, 1), PayloadBytes(1))

OddFiles ==
    { ChunkFiles("ok", Metadata(151, 1, [i \in 1..81 |-> 65], 1), PayloadBytes(1)),
      ChunkFiles("ok", Metadata(151, 1, <<233, 65>>, 1), PayloadBytes(1)),
      ChunkFiles("nojson", Metadata(151, 1, <<65, 66>>, 1), PayloadBytes(1)),
      ChunkFiles("badjson", Metadata(151, 1, <<65, 66>>, 1), PayloadBytes(1)) }

\* Directories extract_firmware leaves behind for k chunks, then edited.
EditedDirs ==
    UNION { [ {BinName(n) : n \in 0..(k - 1)} -> EditedFiles \cup OddFiles ]
            : k \in 0..MaxFiles }

ChunkNumbers == {0, 1, 2, 99, 100, 101, 999, 1000, 1001}

\* Directories that hold some of the chunk files of a large container.
SparseDirs ==
    { [ name \in {BinName(n) : n \in ns} |-> PlainFiles ] :
        ns \in { x \in SUBSET ChunkNumbers :
                   Cardinality(x) >= 1 /\ Cardinality(x) <= MaxFiles } }

----------------------------------------------------------------------------
(* write_firmware *)

InitRebuild ==
    /\ pc = "list"
    /\ disk \in EditedDirs \cup SparseDirs
    /\ file_list = <<>>
    /\ all_chunks = <<>>
    /\ idx = 1
    /\ output = <<>>
    /\ written = <<>>
    /\ inputdata = <<>>
    /\ pos = 0
    /\ consumed = 0
    /\ region = <<>>
    /\ devresult = [ok |-> FALSE]

\* glob.glob('*.bin') and file_list.sort()
ListFiles ==
    /\ pc = "list"
    /\ file_list' = SortNames(DOMAIN disk)
    /\ pc' = "load"
    /\ idx' = 1
    /\ UNCHANGED <<inputdata, pos, consumed, all_chunks, output, disk,
                   written, region, devresult>>

\* One iteration of `for file in file_list`.
LoadChunk ==
    /\ pc = "load"
    /\ idx <= Len(file_list)
    /\ LET file  == file_list[idx]
           f     == disk[file]
           chunk == [chunknum   |-> ChunkNumOf(file),
                     header     |-> f.meta.header,
                     pcidetails |-> f.meta.pcidetails,
                     pcidevices |-> f.meta.pcidevices,
                     firmware   |-> f.bin]
       IN  IF f.json = "ok"
           THEN /\ all_chunks' = Append(all_chunks, recalculateHeaders(chunk))
                /\ idx' = idx + 1
                /\ pc' = pc
           ELSE /\ pc' = "error"
                /\ UNCHANGED <<all_chunks, idx>>
    /\ UNCHANGED <<inputdata, pos, consumed, output, disk, file_list,
                   written, region, devresult>>

LoadDone ==
    /\ pc = "load"
    /\ idx > Len(file_list)
    /\ pc' = "write"
    /\ idx' = 1
    /\ UNCHANGED <<inputdata, pos, consumed, all_chunks, output, disk,
                   file_list, written, region, devresult>>

\* One iteration of `for chunk in all_chunks`.
WriteChunk ==
    /\ pc = "write"
    /\ idx <= Len(all_chunks)
    /\ LET chunk == all_chunks[idx]
           w     == FLBChunkWriteToFLB(chunk)
       IN  /\ written' = Append(written, chunk.chunknum)
           /\ output' = output \o w.bytes
           /\ pc' = IF w.ok THEN pc ELSE "error"
    /\ idx' = idx + 1
    /\ UNCHANGED <<inputdata, pos, consumed, all_chunks, disk, file_list,
                   region, devresult>>

WriteDone ==
    /\ pc = "write"
    /\ idx > Len(all_chunks)
    /\ pc' = "done"
    /\ UNCHANGED <<inputdata, pos, consumed, all_chunks, idx, output, disk,
                   file_list, written, region, devresult>>

NextRebuild == ListFiles \/ LoadChunk \/ LoadDone \/ WriteChunk \/ WriteDone

SpecRebuild == InitRebuild /\ [][NextRebuild]_vars

----------------------------------------------------------------------------
(* Properties of the extract direction, checked under SpecExtract *)

\* The chunks the parse loop has produced are as parsed (none recalculated).
AsParsed == pc = "parse" \/ (pc = "parsed" /\ idx = 1)

\* C1: for every input buffer that is a back-to-back run of chunks with
\* headerLength = 98 + 41 + 12 * entries and dataLength = payload length,
\* parsing, recalculateHeaders on every chunk and writeToFLB of every chunk in
\* order never fails and yields exactly the input bytes.
C1_RoundTrip ==
    WellFormed(inputdata) =>
        /\ pc # "error"
        /\ pc = "done" => output = inputdata

\* C3: parsing a chunk whose header declares headerLength below 98 + 41 fails:
\* no chunk the parse loop accepted declares such a header length.
C3_ShortHeaderFails ==
    AsParsed =>
        \A i \in 1..Len(all_chunks) :
            all_chunks[i].header.header_length >= FixedSize

\* C4: when the parse loop ends without an error the cursor equals the buffer
\* length exactly and every chunk holds as many payload bytes as its header
\* declares.
C4_ExactEnd ==
    (pc = "parsed" /\ idx = 1) =>
        /\ pos = Len(inputdata)
        /\ \A i \in 1..Len(all_chunks) :
               Len(all_chunks[i].firmware) = all_chunks[i].header.data_length

C10_Inv ==
    /\ all_chunks # <<>> => consumed >= FixedSize
    /\ FixedSize * Len(all_chunks) <= pos
    /\ FixedSize * Len(all_chunks) <= Len(inputdata) + (FixedSize - 1)
    /\ \A i \in 1..Len(all_chunks) : all_chunks[i].chunknum = i - 1

C10_Step ==
    (pc = "parse" /\ all_chunks' # all_chunks) =>
        /\ consumed' >= FixedSize
        /\ pos' = pos + consumed'
        /\ pos' > pos
        /\ pos < Len(inputdata)

\* C10: every FLBChunk.parse call that returns reports at least 139 bytes
\* consumed, whatever header_length and data_length are, so each iteration of
\* the parse loop moves the cursor forward by at least 139, the loop produces
\* at most ceil(len(inputdata) / 139) chunks, and the i-th chunk carries
\* chunk number i (counted from 0).
C10_LoopTerminates == []C10_Inv /\ [][C10_Step]_vars

\* A second chunk that declares a header length below 139 has been parsed and
\* the loop has ended.
C10_Witness ==
    /\ pc = "parsed"
    /\ idx = 1
    /\ Len(all_chunks) = 2
    /\ all_chunks[2].header.header_length < FixedSize
    /\ all_chunks[2].header.data_length > 0

----------------------------------------------------------------------------
(* Properties of PCIDeviceList.parse, checked under SpecDevList *)

\* Entry i (from 1) of the region
EntryBytes(i) == SubSeq(region, (i - 1) * DEVICESIZE + 1, i * DEVICESIZE)

\* C6: parsing a device-list region whose length is not a multiple of 12
\* fails; a parse that returns never holds more entries than the region has
\* whole entries and never reports more bytes consumed than the region holds.
C6_MisalignedFails ==
    pc = "devlist_done" =>
        /\ Len(region) % DEVICESIZE # 0 => ~devresult.ok
        /\ devresult.ok =>
             /\ devresult.consumed <= Len(region)
             /\ Len(devresult.devices) * DEVICESIZE <= Len(region)

\* A region of one entry and a half has been parsed, and the parse failed.
C6_Witness ==
    /\ pc = "devlist_done"
    /\ Len(region) = DEVICESIZE + 6
    /\ ~devresult.ok

\* C9: for a region whose length is a multiple of 12 the parse returns
\* length / 12 entries and reports length bytes consumed; the entries are the
\* region's entries in wire order (writing them back gives the region), and
\* an all-zero entry at any position is kept in its place.
C9_AllEntries ==
    (pc = "devlist_done" /\ Len(region) % DEVICESIZE = 0) =>
        /\ devresult.ok
        /\ Len(devresult.devices) = Len(region) \div DEVICESIZE
        /\ devresult.consumed = Len(region)
        /\ PCIDeviceListWriteToFLB(devresult.devices).bytes = region
        /\ \A i \in 1..Len(devresult.devices) :
               isValid(devresult.devices[i]) <=> EntryBytes(i) # ZeroEntry

\* A region of three entries, the first and the last all-zero and the middle
\* one not, has been parsed into three entries.
C9_Witness ==
    /\ pc = "devlist_done"
    /\ region = ZeroEntry \o SomeEntry \o ZeroEntry
    /\ devresult.ok
    /\ Len(devresult.devices) = 3
    /\ isValid(devresult.devices[2])

----------------------------------------------------------------------------
(* Properties of the rebuild direction, checked under SpecRebuild *)

RECURSIVE SumLengths(_)
\* The bytes the chunks of cs take on the wire by their own header fields
SumLengths(cs) ==
    IF cs = <<>> THEN 0
    ELSE Head(cs).header.header_length + Head(cs).header.data_length
           + SumLengths(Tail(cs))

\* C2: every chunk write_firmware holds has header_length = 98 + 41 + 12 *
\* len(devices) and data_length = len(payload), whatever its metadata file
\* said; so the equalities hold for every chunk that is serialized, and the
\* finished output is a back-to-back run of chunks of exactly those lengths.
C2_LengthsRecalculated ==
    /\ \A i \in 1..Len(all_chunks) :
         /\ all_chunks[i].header.header_length
              = FLBHeader_HEADERSIZE + PCIDetails_HEADERSIZE
                  + DEVICESIZE * Len(all_chunks[i].pcidevices)
         /\ all_chunks[i].header.data_length = Len(all_chunks[i].firmware)
    /\ pc = "done" =>
         /\ Len(output) = SumLengths(all_chunks)
         /\ WellFormed(output)

\* Two chunks whose metadata files held wrong lengths (one too small, one too
\* large) have been loaded and written.
C2_Witness ==
    /\ pc = "done"
    /\ Len(all_chunks) = 2
    /\ disk[file_list[1]].meta.header.header_length
         < all_chunks[1].header.header_length
    /\ disk[file_list[2]].meta.header.header_length
         > all_chunks[2].header.header_length
    /\ disk[file_list[2]].meta.header.data_length
         > all_chunks[2].header.data_length
    /\ Len(all_chunks[1].pcidevices) > 0
    /\ Len(output) > 2 * FixedSize

\* The chunks whose writeToFLB has returned
Serialized ==
    IF pc \in {"write", "done"} THEN 1..(idx - 1) ELSE {}

\* C5: a header whose description is longer than 80 bytes or holds a
\* character outside the wire encoding is never serialized (writing it
\* fails); a description of at most 80 bytes without zero bytes is written
\* as exactly 80 bytes and parses back to itself.
C5_DescriptionChecked ==
    \A i \in Serialized :
        LET h == all_chunks[i].header
            w == FLBHeaderWriteToFLB(h)
        IN  /\ Len(h.description) <= 80
            /\ AsciiEncodable(h.description)
            /\ StripNul(h.description) = h.description =>
                 /\ w.ok
                 /\ Len(w.bytes) = FLBHeader_HEADERSIZE
                 /\ FLBHeaderParse(w.bytes).header.description = h.description

\* C7: when write_firmware aborts on a fatal error of some chunk, no byte of
\* any chunk has been written to the output.
C7_NoPartialOutput == pc = "error" => output = <<>>

\* C8: the chunks are written in ascending order of their chunk numbers.
C8_NumericOrder ==
    \A a, b \in 1..Len(written) : a < b => written[a] < written[b]

====
